---- MODULE Spec2Model ----
(***************************************************************************)
(* Bread proofing box (src/proofing_box.ino): an Arduino (ATmega328P)      *)
(* sketch.  The main program (setup() once, then loop() for ever) polls a  *)
(* button, reads a DHT22, drives a relay with hysteresis and refreshes a   *)
(* serial 7-segment display; the external interrupts INT0/INT1 run         *)
(* updateEncoder() on every edge of the two encoder pins.                  *)
(*                                                                         *)
(* Units.  Temperatures are integers in thousandths of a degree Celsius;   *)
(* target_temp is always a multiple of 0.25 degree, which a binary32 float *)
(* holds exactly, and a float comparison is exact on the values compared.  *)
(* A float that is NaN is the record NaN.  Time is in milliseconds, the    *)
(* millisecond clock is an unsigned 32-bit value.                          *)
(*                                                                         *)
(* Atomicity.  An interrupt handler runs to completion (interrupts are     *)
(* disabled inside it), so updateEncoder is one action.  The main program  *)
(* is cut at every place where an interrupt matters: between statements,   *)
(* and between the four byte loads of the volatile float target_temp,      *)
(* which the 8-bit CPU cannot load atomically.                             *)
(***************************************************************************)
EXTENDS Integers, Sequences, FiniteSets, TLC

VARIABLES
    pc,               \* position of the main program (setup(), then loop())
    ret,              \* where updateDisplay()/writeTargetTemperature() returns to
    setup_mode,       \* boolean setup_mode                    (line 30)
    enco_prev,        \* volatile int enco_prev                (line 27)
    enco_value,       \* volatile long enco_value              (line 28)
    target_temp,      \* volatile float target_temp            (line 29), in 1/1000 degree
    time_now,         \* unsigned long time_now                (line 31)
    current_temp,     \* float current_temp                    (line 32)
    cushioned_target, \* local of loop()                       (line 93)
    wait_from,        \* start time of the delay() in progress
    relay,            \* level of pin_relay (TRUE = HIGH = energized)
    pins,             \* levels of pin_enco_1, pin_enco_2
    sw,               \* level of pin_enco_sw (0 = pressed, pull-up)
    attached,         \* the two external interrupts are attached (lines 60-61)
    eifr,             \* pending external interrupt flags, a subset of {0, 1}
    clock,            \* millis()
    disp,             \* what the display transport received last
    relay0,           \* history: relay level when the current iteration of loop() began
    seen,             \* the values target_temp held while line 132 was loading it
    toggle_at,        \* history: <<clock at the latest mode toggle>> while less than
                      \*          guard_delay ms old, else <<>>
    press_toggles,    \* history: mode toggles since the button was last pressed down
    presses,          \* history: how many times the button was pressed down
    isr_startup,      \* history: the handler ran during setup() (until loop() begins)
    isr_decide,       \* history: the handler ran between the sensor read and the
                      \*          relay command of the current iteration
    last_write        \* history: <<clock at the latest write of a payload or of the
                      \*          error token>> while at most refresh_freq ms old,
                      \*          else <<>>

vars == <<pc, ret, setup_mode, enco_prev, enco_value, target_temp, time_now,
          current_temp, cushioned_target, wait_from, relay, pins, sw,
          attached, eifr, clock, disp, relay0, seen, toggle_at, press_toggles, presses,
          isr_startup, isr_decide, last_write>>

(***************************************************************************)
(* Program constants.                                                      *)
(***************************************************************************)
refresh_freq == 100
enco_sensitivity == 250
cushion_temp == 2000
enco_value_init == 100
guard_delay == 1000
startup_delay == 3000

(***************************************************************************)
(* Bounds of the model.                                                    *)
(***************************************************************************)
CounterMin == 99
CounterMax == 101
DialMax == 128
TickMs == 1000
ClockMax == 4100
MaxPressToggles == 2
MaxPresses == 2
WrapLead == 150
WrapTick == 50
WrapMax == 200

(***************************************************************************)
(* unsigned long (32 bits), kept as two 16-bit halves: every operation     *)
(* wraps modulo 2^32 as the C arithmetic does.                             *)
(***************************************************************************)
U32(h, l) == [h |-> h, l |-> l]

\* a + d modulo 2^32, for 0 <= d < 65536
U32Add(a, d) == U32((a.h + ((a.l + d) \div 65536)) % 65536, (a.l + d) % 65536)

\* a - b modulo 2^32
U32Sub(a, b) ==
    LET borrow == IF a.l < b.l THEN 1 ELSE 0
    IN  U32((a.h - b.h - borrow + 65536) % 65536, (a.l - b.l + 65536) % 65536)

\* a > n and a >= n, for 0 <= n < 65536
U32Gt(a, n) == a.h > 0 \/ a.l > n
U32Ge(a, n) == a.h > 0 \/ a.l >= n

(***************************************************************************)
(* Floats.                                                                 *)
(***************************************************************************)
NaN == [nan |-> TRUE, v |-> 0]
Float(x) == [nan |-> FALSE, v |-> x]
isnan(f) == f.nan

\* a <= b on floats: false when either is NaN.
FloatLe(a, b) == ~a.nan /\ ~b.nan /\ a.v <= b.v

\* C's conversion of a quotient to int: truncation toward zero.
TruncDiv(a, b) == IF a >= 0 THEN a \div b ELSE -((-a) \div b)

RECURSIVE Log2(_)
Log2(m) == IF m <= 1 THEN 0 ELSE 1 + Log2(m \div 2)

RECURSIVE Pow2(_)
Pow2(n) == IF n = 0 THEN 1 ELSE 2 * Pow2(n - 1)

\* The four bytes (lowest address first, little-endian) of the IEEE-754
\* binary32 representation of a target temperature t, a multiple of 250
\* thousandths (0.25 degree): sign, biased exponent ex, 23-bit fraction man.
F32Bytes(t) ==
    LET q   == (IF t < 0 THEN -t ELSE t) \div 250
        e   == Log2(q)
        sg  == IF t < 0 THEN 1 ELSE 0
        ex  == IF q = 0 THEN 0 ELSE e - 2 + 127
        man == IF q = 0 THEN 0 ELSE (q * Pow2(23 - e)) - Pow2(23)
    IN  << man % 256,
           (man \div 256) % 256,
           ((ex % 2) * 128) + (man \div 65536),
           (sg * 128) + (ex \div 2) >>

\* (int) f for the float held in the four bytes b: truncation toward zero.
\* Beyond the range of a 16-bit int (ex >= 142) the conversion is undefined;
\* no byte mixture of two targets of the model gets there.
F32ToInt(b) ==
    LET sg  == b[4] \div 128
        ex  == ((b[4] % 128) * 2) + (b[3] \div 128)
        man == Pow2(23) + ((b[3] % 128) * 65536) + (b[2] * 256) + b[1]
        mag == IF ex < 127 \/ ex >= 142 THEN 0 ELSE man \div Pow2(150 - ex)
    IN  IF sg = 1 THEN -mag ELSE mag

(***************************************************************************)
(* sprintf.                                                                *)
(***************************************************************************)
DigitChar(d) == <<"0", "1", "2", "3", "4", "5", "6", "7", "8", "9">>[d + 1]

RECURSIVE Digits(_)
Digits(n) == IF n < 10 THEN <<DigitChar(n)>>
             ELSE Digits(n \div 10) \o <<DigitChar(n % 10)>>

Itoa(v) == IF v < 0 THEN <<"-">> \o Digits(-v) ELSE Digits(v)

RECURSIVE Spaces(_)
Spaces(n) == IF n <= 0 THEN <<>> ELSE <<" ">> \o Spaces(n - 1)

\* printf's %<w>d: right-justified in at least w characters.
FmtD(w, v) == Spaces(w - Len(Itoa(v))) \o Itoa(v)

(***************************************************************************)
(* Pure parts of the program.                                              *)
(***************************************************************************)

\* target_temp = enco_value * enco_sensitivity
SetPoint(counter) == counter * enco_sensitivity

\* Mutant of TargetAfterUpdate: the handler forgets to recompute the setpoint.
TargetKept(counter, old) == old

\* target_temp after updateEncoder() has changed the counter to counter
\* (line 167); old is the value it held.
TargetAfterUpdate(counter, old) == SetPoint(counter)

\* Mutant of EncoderEnabled: the gate is inverted.
EncoderEnabledInverted(mode) == ~mode

\* Mutant of EncoderEnabled: the handler is not gated by the mode.
EncoderAlwaysEnabled(mode) == TRUE

\* if (!setup_mode) return;   at the head of updateEncoder()
EncoderEnabled(mode) == mode

\* Mutant of Decode: a mistyped forward code (0b1100 for 0b1101).
DecodeTypo(sum) ==
    (IF sum \in {12, 4, 2, 11} THEN 1 ELSE 0) - (IF sum \in {14, 7, 1, 8} THEN 1 ELSE 0)

\* The change of enco_value for a 4-bit transition code (lines 162-163).
Decode(sum) ==
    (IF sum \in {13, 4, 2, 11} THEN 1 ELSE 0) - (IF sum \in {14, 7, 1, 8} THEN 1 ELSE 0)

\* Mutant of ButtonPressed: the negation is missing.
ButtonPressedInverted(level) == level # 0

\* !digitalRead(pin_enco_sw)
ButtonPressed(level) == level = 0

\* Mutant of DelayOver: the delay does not wait.
DelayOverAtOnce(now, from, ms) == TRUE

\* The delay() that began at from, for ms milliseconds, is over at now.
DelayOver(now, from, ms) == U32Ge(U32Sub(now, from), ms)

\* Mutant of AfterRead: an invalid reading skips the relay decision but not
\* the refresh check.
AfterReadToRefresh(t) == IF isnan(t) THEN "rf_check" ELSE "thresh"

\* Mutant of AfterRead: loop() returns after every read.
AfterReadAlwaysReturn(t) == "button"

\* Mutant of AfterRead: the return of line 86 is missing.
AfterReadNoReturn(t) == "thresh"

\* Where loop() continues after the sensor read: return on an invalid reading.
AfterRead(t) == IF isnan(t) THEN "button" ELSE "thresh"

\* Mutant of CushionedTarget: the two branches are swapped.
CushionedTargetSwapped(state, target) ==
    LET cushion == cushion_temp \div 2
    IN  IF state THEN target - cushion ELSE target + cushion

\* cushioned_target, from relayState() and target_temp (lines 91-95)
CushionedTarget(state, target) ==
    LET cushion == cushion_temp \div 2
    IN  IF state THEN target + cushion ELSE target - cushion

\* Mutant of RelayCommand: < for <=.
RelayCommandStrict(cur, cushioned) == ~cur.nan /\ cur.v < cushioned

\* the argument of switchRelay() (line 99)
RelayCommand(cur, cushioned) == FloatLe(cur, Float(cushioned))

\* Mutant of RunBranch: the sensor and relay branch is not gated by the mode.
RunBranchAlways(mode) == TRUE

\* if (!setup_mode)   at line 81: the branch that reads the sensor and
\* commands the relay
RunBranch(mode) == ~mode

\* Mutant of RefreshDue: millis() > time_now + refresh_freq.
RefreshDueAbsolute(now, last) ==
    LET due == U32Add(last, refresh_freq)
    IN  now.h > due.h \/ (now.h = due.h /\ now.l > due.l)

\* millis() - time_now > refresh_freq
RefreshDue(now, last) == U32Gt(U32Sub(now, last), refresh_freq)

\* Which presenter updateDisplay() calls.
Presenter(mode) == IF mode THEN "wt_dec" ELSE "wc"

\* (int) (current_temp * 100) of a NaN is undefined: what a build may give.
NanCast == {-32768, 0, 32767}

\* The strings writeCurrentTemperature() may print for current_temp = cur.
CurrentPayloads(cur) ==
    IF isnan(cur) THEN {FmtD(4, r) : r \in NanCast}
    ELSE {FmtD(4, TruncDiv(cur.v * 100, 1000))}

\* The string writeTargetTemperature() prints for the loaded bytes b.
TargetPayload(b) == <<"T", " ">> \o FmtD(2, F32ToInt(b))

ErrToken == <<"E", "r", "r", " ">>

(***************************************************************************)
(* The environment a specification lets act: the counter values the        *)
(* encoder may reach, the readings the sensor may give, the steps of time. *)
(***************************************************************************)
SensorVals == {Float(24000), Float(25000), Float(26000), Float(26100)}

EnvMain == [ctr |-> CounterMin .. CounterMax, temps |-> SensorVals \cup {NaN},
            tick |-> TickMs, clockMax |-> ClockMax, presses |-> MaxPresses,
            dirs |-> {"fwd", "bwd"}]

\* One press of the button, then the knob turned forward as far as DialMax.
EnvDial == [ctr |-> enco_value_init .. DialMax,
            temps |-> {Float(-10000), Float(23456), NaN},
            tick |-> TickMs, clockMax |-> ClockMax, presses |-> 1,
            dirs |-> {"fwd"}]

(***************************************************************************)
(* Initial state: the globals as initialised (lines 26-32), the hardware   *)
(* after reset.                                                            *)
(***************************************************************************)
Init ==
    /\ pc = "s_begin"
    /\ ret = "none"
    /\ setup_mode = FALSE
    /\ enco_prev = 0
    /\ enco_value = enco_value_init
    /\ target_temp = 0
    /\ time_now = U32(0, 0)
    /\ current_temp = Float(0)
    /\ cushioned_target = 0
    /\ wait_from = U32(0, 0)
    /\ relay = FALSE
    /\ pins = <<1, 1>>
    /\ sw = 1
    /\ attached = FALSE
    /\ eifr = {}
    /\ clock = U32(0, 0)
    /\ disp = [dec |-> 0, text |-> <<>>]
    /\ relay0 = FALSE
    /\ seen = {}
    /\ toggle_at = <<>>
    /\ press_toggles = 0
    /\ presses = 0
    /\ isr_startup = FALSE
    /\ isr_decide = FALSE
    /\ last_write = <<>>

(***************************************************************************)
(* Interrupts.  While the main program is at one of these places it runs   *)
(* with interrupts disabled for milliseconds (the bit-banged serial write  *)
(* of SoftwareSerial, the timed read of the DHT): edges that arrive then   *)
(* set their flags and are served afterwards.  Anywhere else a pending     *)
(* interrupt is served before the next instruction of the main program.    *)
(***************************************************************************)
InSetup == pc \in {"s_begin", "s_attach", "s_relay", "s_target", "s_delay"}
             \/ ret = "s_delay"

IrqOff == pc \in {"s_begin", "wt_dec", "wc", "read"}

(***************************************************************************)
(* The environment.                                                        *)
(***************************************************************************)
body == <<pc, ret, setup_mode, enco_prev, enco_value, target_temp, time_now,
          current_temp, cushioned_target, wait_from, relay, attached,
          disp, relay0, seen, isr_startup, isr_decide>>

prog == <<body, toggle_at, last_write>>

\* The pin pair that follows p when the knob turns one step forward.
FwdNext(p) ==
    IF p = <<1, 1>> THEN <<0, 1>>
    ELSE IF p = <<0, 1>> THEN <<0, 0>>
    ELSE IF p = <<0, 0>> THEN <<1, 0>>
    ELSE <<1, 1>>

\* An edge on encoder pin i (1: pin_enco_1, INT0; 2: pin_enco_2, INT1).  The
\* environment e turns the knob only in its directions and only as far as
\* its counter values reach.
FlipPin(e, i) ==
    LET p == [pins EXCEPT ![i] = 1 - pins[i]]
    IN  /\ eifr = {} \/ IrqOff
        /\ (IF p = FwdNext(pins) THEN "fwd" ELSE "bwd") \in e.dirs
        /\ EncoderEnabled(setup_mode) =>
              enco_value + Decode((4 * enco_prev) + (2 * p[1]) + p[2]) \in e.ctr
        /\ pins' = p
        /\ eifr' = IF attached THEN eifr \cup {i} ELSE eifr
        /\ UNCHANGED <<prog, sw, clock, press_toggles, presses>>

Press(e) ==
    /\ sw = 1
    /\ presses < e.presses
    /\ sw' = 0
    /\ presses' = presses + 1
    /\ press_toggles' = 0
    /\ UNCHANGED <<prog, pins, eifr, clock>>

Release ==
    /\ sw = 0
    /\ sw' = 1
    /\ press_toggles' = 0
    /\ UNCHANGED <<prog, pins, eifr, clock, presses>>

Tick(e) ==
    /\ clock.h = 65535 \/ (clock.h = 0 /\ clock.l + e.tick <= e.clockMax)
    /\ clock' = U32Add(clock, e.tick)
    /\ toggle_at' = IF toggle_at # <<>> /\ U32Ge(U32Sub(clock', toggle_at[1]), guard_delay)
                    THEN <<>> ELSE toggle_at
    /\ last_write' = IF last_write # <<>>
                         /\ U32Gt(U32Sub(clock', last_write[1]), refresh_freq)
                      THEN <<>> ELSE last_write
    /\ UNCHANGED <<body, pins, sw, eifr, press_toggles, presses>>

(***************************************************************************)
(* updateEncoder(), the handler of INT0 and INT1 (lines 150-168).          *)
(***************************************************************************)
\* Between the four byte loads of line 132 there are three places where the
\* handler can run.
UpdateEncoder ==
    /\ attached
    /\ ~IrqOff
    /\ pc = "wt_ld" => Cardinality(seen) < 4
    /\ isr_startup' = (isr_startup \/ InSetup)
    /\ isr_decide' = (isr_decide \/ pc \in {"thresh", "relay"})
    /\ \E i \in eifr : eifr' = eifr \ {i}
    /\ IF ~EncoderEnabled(setup_mode)
       THEN UNCHANGED <<enco_prev, enco_value, target_temp, seen>>
       ELSE LET msb  == pins[1]
                lsb  == pins[2]
                enco == (2 * msb) + lsb
                sum  == (4 * enco_prev) + enco
                val  == enco_value + Decode(sum)
            IN  /\ enco_value' = val
                /\ enco_prev' = enco
                /\ target_temp' = TargetAfterUpdate(val, target_temp)
                /\ seen' = IF pc = "wt_ld" THEN seen \cup {target_temp'} ELSE seen
    /\ UNCHANGED <<pc, ret, setup_mode, time_now, current_temp, cushioned_target,
                   wait_from, relay, pins, sw, attached, clock, disp, relay0,
                   toggle_at, press_toggles, presses, last_write>>

(***************************************************************************)
(* The main program.  A step waits for eifr = {} unless it ends a stretch   *)
(* with interrupts disabled.                                               *)
(***************************************************************************)
env == <<pins, sw, eifr, clock, presses>>

\* setup(), lines 39-58: display cleared, sensor and pins initialised.
SetupBegin ==
    /\ pc = "s_begin"
    /\ disp' = [dec |-> 0, text |-> <<>>]
    /\ pc' = "s_attach"
    /\ UNCHANGED <<ret, setup_mode, enco_prev, enco_value, target_temp, time_now,
                   current_temp, cushioned_target, wait_from, relay, attached,
                   relay0, seen, toggle_at, press_toggles, isr_startup, isr_decide, env,
                   last_write>>

\* setup(), lines 60-61
SetupAttach ==
    /\ pc = "s_attach"
    /\ attached' = TRUE
    /\ pc' = "s_relay"
    /\ UNCHANGED <<ret, setup_mode, enco_prev, enco_value, target_temp, time_now,
                   current_temp, cushioned_target, wait_from, relay, disp,
                   relay0, seen, toggle_at, press_toggles, isr_startup, isr_decide, env,
                   last_write>>

\* setup(), lines 64-65: switchRelay(false)
SetupRelay ==
    /\ pc = "s_relay"
    /\ eifr = {}
    /\ relay' = FALSE
    /\ pc' = "s_target"
    /\ UNCHANGED <<ret, setup_mode, enco_prev, enco_value, target_temp, time_now,
                   current_temp, cushioned_target, wait_from, attached, disp,
                   relay0, seen, toggle_at, press_toggles, isr_startup, isr_decide, env,
                   last_write>>

\* setup(), lines 68-69: the first setpoint, then writeTargetTemperature()
SetupTarget ==
    /\ pc = "s_target"
    /\ eifr = {}
    /\ target_temp' = SetPoint(enco_value)
    /\ pc' = "wt_dec"
    /\ ret' = "s_delay"
    /\ UNCHANGED <<setup_mode, enco_prev, enco_value, time_now, current_temp,
                   cushioned_target, wait_from, relay, attached, disp,
                   relay0, seen, toggle_at, press_toggles, isr_startup, isr_decide, env,
                   last_write>>

\* setup(), line 70: delay(3000) returns, loop() begins
StartupDelay ==
    /\ pc = "s_delay"
    /\ eifr = {}
    /\ DelayOver(clock, wait_from, startup_delay)
    /\ pc' = "button"
    /\ wait_from' = U32(0, 0)
    /\ UNCHANGED <<ret, setup_mode, enco_prev, enco_value, target_temp, time_now,
                   current_temp, cushioned_target, relay, attached,
                   disp, relay0, seen, toggle_at, press_toggles, isr_startup, isr_decide, env,
                   last_write>>

\* loop(), lines 75-76: sample the button, flip the mode when it reads pressed
Button ==
    /\ pc = "button"
    /\ eifr = {}
    /\ relay0' = relay
    /\ isr_startup' = FALSE
    /\ isr_decide' = FALSE
    /\ IF ButtonPressed(sw)
       THEN /\ setup_mode' = ~setup_mode
            /\ pc' = "upd"
            /\ ret' = "tog_delay"
            /\ toggle_at' = <<clock>>
            /\ press_toggles' = IF press_toggles < MaxPressToggles
                                THEN press_toggles + 1 ELSE press_toggles
       ELSE /\ pc' = "mode"
            /\ UNCHANGED <<setup_mode, ret, toggle_at, press_toggles>>
    /\ UNCHANGED <<enco_prev, enco_value, target_temp, time_now, current_temp,
                   cushioned_target, wait_from, relay, attached, disp, seen, env,
                   last_write>>

\* loop(), line 78: delay(1000) returns
GuardDelay ==
    /\ pc = "tog_delay"
    /\ eifr = {}
    /\ DelayOver(clock, wait_from, guard_delay)
    /\ pc' = "mode"
    /\ wait_from' = U32(0, 0)
    /\ UNCHANGED <<ret, setup_mode, enco_prev, enco_value, target_temp, time_now,
                   current_temp, cushioned_target, relay, attached,
                   disp, relay0, seen, toggle_at, press_toggles, isr_startup, isr_decide, env,
                   last_write>>

\* loop(), line 81
ModeCheck ==
    /\ pc = "mode"
    /\ eifr = {}
    /\ pc' = IF RunBranch(setup_mode) THEN "read" ELSE "rf_check"
    /\ UNCHANGED <<ret, setup_mode, enco_prev, enco_value, target_temp, time_now,
                   current_temp, cushioned_target, wait_from, relay, attached,
                   disp, relay0, seen, toggle_at, press_toggles, isr_startup, isr_decide, env,
                   last_write>>

\* loop(), lines 82-87: read the sensor; an invalid reading prints the error
\* token and ends the iteration
ReadSensor(e) ==
    /\ pc = "read"
    /\ \E t \in e.temps :
         /\ current_temp' = t
         /\ disp' = IF isnan(t) THEN [disp EXCEPT !.text = ErrToken] ELSE disp
         /\ pc' = AfterRead(t)
         /\ last_write' = IF isnan(t) THEN <<clock>> ELSE last_write
    /\ UNCHANGED <<ret, setup_mode, enco_prev, enco_value, target_temp, time_now,
                   cushioned_target, wait_from, relay, attached,
                   relay0, seen, toggle_at, press_toggles, isr_startup, isr_decide, env>>

\* loop(), lines 91-95.  target_temp is loaded in Run mode, where
\* updateEncoder() returns before it writes: the load cannot be torn.
Threshold ==
    /\ pc = "thresh"
    /\ eifr = {}
    /\ cushioned_target' = CushionedTarget(relay, target_temp)
    /\ pc' = "relay"
    /\ UNCHANGED <<ret, setup_mode, enco_prev, enco_value, target_temp, time_now,
                   current_temp, wait_from, relay, attached, disp,
                   relay0, seen, toggle_at, press_toggles, isr_startup, isr_decide, env,
                   last_write>>

\* loop(), line 99: switchRelay(current_temp <= cushioned_target)
SwitchRelay ==
    /\ pc = "relay"
    /\ eifr = {}
    /\ relay' = RelayCommand(current_temp, cushioned_target)
    /\ cushioned_target' = 0
    /\ pc' = "rf_check"
    /\ UNCHANGED <<ret, setup_mode, enco_prev, enco_value, target_temp, time_now,
                   current_temp, wait_from, attached, disp,
                   relay0, seen, toggle_at, press_toggles, isr_startup, isr_decide, env,
                   last_write>>

\* loop(), line 103
RefreshCheck ==
    /\ pc = "rf_check"
    /\ eifr = {}
    /\ pc' = IF RefreshDue(clock, time_now) THEN "rf_stamp" ELSE "button"
    /\ UNCHANGED <<ret, setup_mode, enco_prev, enco_value, target_temp, time_now,
                   current_temp, cushioned_target, wait_from, relay, attached,
                   disp, relay0, seen, toggle_at, press_toggles, isr_startup, isr_decide, env,
                   last_write>>

\* loop(), lines 104-105
RefreshStamp ==
    /\ pc = "rf_stamp"
    /\ eifr = {}
    /\ time_now' = clock
    /\ pc' = "upd"
    /\ ret' = "button"
    /\ UNCHANGED <<setup_mode, enco_prev, enco_value, target_temp,
                   current_temp, cushioned_target, wait_from, relay, attached,
                   disp, relay0, seen, toggle_at, press_toggles, isr_startup, isr_decide, env,
                   last_write>>

\* updateDisplay(), lines 109-115
UpdateDisplay ==
    /\ pc = "upd"
    /\ eifr = {}
    /\ pc' = Presenter(setup_mode)
    /\ UNCHANGED <<ret, setup_mode, enco_prev, enco_value, target_temp, time_now,
                   current_temp, cushioned_target, wait_from, relay, attached,
                   disp, relay0, seen, toggle_at, press_toggles, isr_startup, isr_decide, env,
                   last_write>>

\* writeCurrentTemperature(), lines 117-125
WriteCurrentTemperature ==
    /\ pc = "wc"
    /\ \E s \in CurrentPayloads(current_temp) : disp' = [dec |-> 2, text |-> s]
    /\ pc' = ret
    /\ last_write' = <<clock>>
    /\ ret' = "none"
    /\ wait_from' = IF ret \in {"s_delay", "tog_delay"} THEN clock ELSE wait_from
    /\ UNCHANGED <<setup_mode, enco_prev, enco_value, target_temp, time_now,
                   current_temp, cushioned_target, relay, attached,
                   relay0, seen, toggle_at, press_toggles, isr_startup, isr_decide, env>>

\* writeTargetTemperature(), line 131: setDecimals(0b010000)
WriteTargetDecimals ==
    /\ pc = "wt_dec"
    /\ disp' = [disp EXCEPT !.dec = 16]
    /\ seen' = {target_temp}
    /\ pc' = "wt_ld"
    /\ UNCHANGED <<ret, setup_mode, enco_prev, enco_value, target_temp, time_now,
                   current_temp, cushioned_target, wait_from, relay, attached,
                   relay0, toggle_at, press_toggles, isr_startup, isr_decide, env,
                   last_write>>

\* The byte mixtures a load of target_temp may give when target_temp held
\* the values vals while the four byte loads were under way: each byte comes
\* from one of them (the compiler chooses the order of the loads).
LoadedBytes(vals) ==
    LET B(i) == {F32Bytes(v)[i] : v \in vals}
    IN  {<<b1, b2, b3, b4>> : b1 \in B(1), b2 \in B(2), b3 \in B(3), b4 \in B(4)}

\* writeTargetTemperature(), lines 132-133: the load of the volatile float
\* target_temp, which updateEncoder() may interrupt, then sprintf and
\* disp.print
WriteTargetTemperature ==
    /\ pc = "wt_ld"
    /\ eifr = {}
    /\ \E b \in LoadedBytes(seen) : disp' = [disp EXCEPT !.text = TargetPayload(b)]
    /\ seen' = {}
    /\ pc' = ret
    /\ last_write' = <<clock>>
    /\ ret' = "none"
    /\ wait_from' = IF ret \in {"s_delay", "tog_delay"} THEN clock ELSE wait_from
    /\ UNCHANGED <<setup_mode, enco_prev, enco_value, target_temp, time_now,
                   current_temp, cushioned_target, relay, attached,
                   relay0, toggle_at, press_toggles, isr_startup, isr_decide, env>>

Main(e) ==
    \/ SetupBegin \/ SetupAttach \/ SetupRelay \/ SetupTarget \/ StartupDelay
    \/ Button \/ GuardDelay \/ ModeCheck \/ ReadSensor(e) \/ Threshold
    \/ SwitchRelay \/ RefreshCheck \/ RefreshStamp \/ UpdateDisplay
    \/ WriteCurrentTemperature \/ WriteTargetDecimals \/ WriteTargetTemperature

Environment(e) == (\E i \in 1 .. 2 : FlipPin(e, i)) \/ Press(e) \/ Release \/ Tick(e)

NextIn(e) == Main(e) \/ UpdateEncoder \/ Environment(e)

Next == NextIn(EnvMain)

Spec == Init /\ [][Next]_vars

\* 49.7 days after reset: the millisecond clock is WrapLead ms short of
\* 2^32 and runs through 0 up to WrapMax, in steps of WrapTick; the button
\* and the knob are left alone.
EnvWrap == [ctr |-> {enco_value_init},
            temps |-> {Float(24000), Float(26100)},
            tick |-> WrapTick, clockMax |-> WrapMax, presses |-> 0,
            dirs |-> {}]

\* loop() at the start of an iteration in Run mode, the globals as setup()
\* and the iterations so far have left them, the latest refresh up to two
\* steps of the clock ago.
InitWrap ==
    /\ pc = "button"
    /\ ret = "none"
    /\ setup_mode = FALSE
    /\ enco_prev = 0
    /\ enco_value = enco_value_init
    /\ target_temp = SetPoint(enco_value_init)
    /\ clock = U32(65535, 65536 - WrapLead)
    /\ time_now \in {U32Sub(clock, U32(0, d)) : d \in {0, WrapTick, 2 * WrapTick}}
    /\ current_temp \in EnvWrap.temps
    /\ cushioned_target = 0
    /\ wait_from = U32(0, 0)
    /\ relay = RelayCommand(current_temp, CushionedTarget(FALSE, target_temp))
    /\ pins = <<1, 1>>
    /\ sw = 1
    /\ attached = TRUE
    /\ eifr = {}
    /\ disp \in {[dec |-> 2, text |-> p] : p \in CurrentPayloads(current_temp)}
    /\ relay0 = relay
    /\ seen = {}
    /\ toggle_at = <<>>
    /\ press_toggles = 0
    /\ presses = 0
    /\ isr_startup = FALSE
    /\ isr_decide = FALSE
    /\ last_write = <<>>

\* The iterations of loop() in Run mode, and the clock.
NextWrap ==
    \/ Button \/ ModeCheck \/ ReadSensor(EnvWrap) \/ Threshold \/ SwitchRelay
    \/ RefreshCheck \/ RefreshStamp \/ UpdateDisplay \/ WriteCurrentTemperature
    \/ Tick(EnvWrap)

SpecWrap == InitWrap /\ [][NextWrap]_vars

\* A sensor that fails or reads 24.0, one press of the button, the knob turned
\* one step forward.
EnvLive == [ctr |-> enco_value_init .. enco_value_init + 1,
            temps |-> {Float(24000), NaN},
            tick |-> TickMs, clockMax |-> ClockMax, presses |-> 1,
            dirs |-> {"fwd"}]

NextLive == NextIn(EnvLive)

\* A read of the sensor that gives a valid reading.
ReadValid(e) == ReadSensor(e) /\ ~isnan(current_temp')

\* The main program runs on: the CPU executes at least one instruction of
\* it between two interrupts (strong fairness of Main), a pending interrupt
\* is served (weak fairness of UpdateEncoder), and a sensor that is read
\* again and again gives a valid reading in the end.
SpecLive ==
    /\ Init /\ [][NextLive]_vars
    /\ SF_vars(Main(EnvLive))
    /\ WF_vars(UpdateEncoder)
    /\ SF_vars(ReadValid(EnvLive))

NextDial == NextIn(EnvDial)

SpecDial == Init /\ [][NextDial]_vars

(***************************************************************************)
(* Properties.                                                             *)
(***************************************************************************)

\* The steps of the main program and of the handler, told by what they change.
IsrStep == eifr' # eifr /\ eifr' \subseteq eifr
ToggleStep == setup_mode' # setup_mode
ButtonStep == pc = "button" /\ pc' # "button"

\* The current iteration of loop() read a valid temperature in Run mode and
\* has commanded the relay.
Decided == ~setup_mode /\ pc \in {"rf_check", "rf_stamp"}

\* C1: after the relay decision of a Run-mode iteration with a valid reading
\* the relay is energized iff the temperature is <= target + 1.0 when the relay
\* was energized before the iteration, <= target - 1.0 when it was not.
C1_Hysteresis ==
    Decided =>
        /\ ~isnan(current_temp)
        /\ relay <=> (current_temp.v <= target_temp + (IF relay0 THEN 1000 ELSE -1000))

\* C1 witness: an energized relay was de-energized by a reading above target + 1.0.
C1_Witness ==
    Decided /\ pc = "rf_check" /\ relay0 /\ ~relay /\ current_temp.v > target_temp + 1000

\* C2: in Run mode, while the valid reading lies strictly between target - 1.0
\* and target + 1.0, no step changes the relay, whichever state it is in.
C2_DeadBand ==
    [][(/\ ~setup_mode
        /\ ~isnan(current_temp)
        /\ target_temp - 1000 < current_temp.v
        /\ current_temp.v < target_temp + 1000) => relay' = relay]_vars

\* C2 witness: the decision ran with a reading inside the band and left the
\* relay energized.
C2_Witness ==
    /\ Decided /\ pc = "rf_check" /\ relay /\ relay0
    /\ target_temp - 1000 < current_temp.v
    /\ current_temp.v < target_temp + 1000

\* C3: an iteration whose reading is NaN never reaches the relay decision, and
\* when it ends the relay is as it was when the iteration began.
C3_NanKeepsRelay ==
    /\ isnan(current_temp) => pc \notin {"thresh", "relay"}
    /\ (pc = "button" /\ isnan(current_temp)) => relay = relay0

\* C3 witness: a Run-mode iteration ended on a NaN reading with the relay
\* still energized.
C3_Witness ==
    pc = "button" /\ ~setup_mode /\ isnan(current_temp) /\ relay /\ disp.text = ErrToken

\* The change of the counter the decoder is to make for a transition code.
C4_Delta(code) ==
    IF code \in {13, 4, 2, 11} THEN 1
    ELSE IF code \in {14, 7, 1, 8} THEN -1
    ELSE 0

\* C4: a run of the decoder in Setup mode changes the counter by +1 for the
\* forward codes 1101, 0100, 0010, 1011, by -1 for the backward codes 1110,
\* 0111, 0001, 1000, and not at all for the other eight codes.
C4_Quadrature ==
    [][(IsrStep /\ setup_mode) =>
          enco_value' - enco_value = C4_Delta((4 * enco_prev) + (2 * pins[1]) + pins[2])]_vars

\* C4 witness: the decoder has counted a forward transition in Setup mode.
C4_Witness ==
    setup_mode /\ enco_value = enco_value_init + 1 /\ enco_prev = (2 * pins[1]) + pins[2]

\* C5: once setup() has computed the first setpoint, target_temp is the
\* counter times 0.25 in every state the main program can see.
C5_SetPoint ==
    pc \notin {"s_begin", "s_attach", "s_relay", "s_target"} =>
        target_temp = enco_value * 250

\* C5 witness: the decoder has changed the counter and the setpoint follows.
C5_Witness ==
    setup_mode /\ enco_value # enco_value_init /\ target_temp = enco_value * 250

\* C6 (as stated): a press of the button toggles the mode exactly once.
C6_OncePerPress == presses = 1 => press_toggles <= 1

\* C6 (amended): a button sampled pressed in Run mode puts the mode to Setup,
\* and no toggle follows another within 1 second.
C6_GuardInterval ==
    [][/\ (ButtonStep /\ sw = 0 /\ ~setup_mode) => setup_mode'
       /\ ToggleStep => toggle_at = <<>>]_vars

\* C6 witness: one press, held, has toggled the mode twice.
C6_Witness == presses = 1 /\ sw = 0 /\ press_toggles = 2 /\ ~setup_mode

\* C7: the mode changes only in the button step of an iteration whose sample
\* reads pressed, and that step flips it.
C7_ModeChanges ==
    [][/\ ToggleStep => (ButtonStep /\ sw = 0)
       /\ (ButtonStep /\ sw = 0) => setup_mode' = ~setup_mode]_vars

\* C7 witness: back in Run mode after a stay in Setup mode in which the
\* counter was changed.
C7_Witness == ~setup_mode /\ enco_value # enco_value_init /\ pc = "upd"

\* C8: a refresh calls the presenter of the mode it finds; in Run mode the
\* payload is the current temperature times 100, truncated, right-justified in
\* 4 characters; in Setup mode it is "T " and the target temperature,
\* truncated, right-justified in 2 characters, the target being a value
\* target_temp held while the presenter ran.
C8_DisplayFormat ==
    [][/\ (pc = "upd" /\ pc' # "upd") =>
              pc' = IF setup_mode THEN "wt_dec" ELSE "wc"
       /\ (pc = "wc" /\ pc' # "wc" /\ ~isnan(current_temp)) =>
              disp'.text = FmtD(4, TruncDiv(current_temp.v * 100, 1000))
       /\ (pc = "wt_ld" /\ pc' # "wt_ld") =>
              \E v \in seen :
                  disp'.text = <<"T", " ">> \o FmtD(2, TruncDiv(v, 1000))]_vars

\* C9: every payload on the display transport is exactly 4 characters long.
C9_FourCharacters == disp.text = <<>> \/ Len(disp.text) = 4

\* C10: when setup() returns and the first iteration of loop() begins, the
\* mode is Run, the counter 100, the target 25.0 (shown as "T 25") and the
\* relay de-energized; a counter of 0 gives the target 0.0.
C10_Startup ==
    [][(pc = "s_delay" /\ pc' = "button") =>
          /\ ~setup_mode' /\ enco_value' = 100 /\ target_temp' = 25000 /\ ~relay'
          /\ disp'.text = <<"T", " ", "2", "5">>
          /\ SetPoint(0) = 0]_vars

\* C10 witness: the first iteration begins after encoder edges during startup.
C10_Witness ==
    /\ pc = "button" /\ isr_startup /\ pins # <<1, 1>>
    /\ ~setup_mode /\ enco_value = 100 /\ target_temp = 25000 /\ ~relay

\* C11: the relay changes only in the relay command of a Run-mode iteration
\* with a valid reading; no step taken in Setup mode, no interrupt, no toggle
\* and no refresh changes it.
C11_RelayFrame ==
    [][/\ relay' # relay => (pc = "relay" /\ ~setup_mode /\ ~isnan(current_temp))
       /\ (setup_mode \/ IsrStep \/ ToggleStep \/ pc \in {"upd", "wc", "wt_dec", "wt_ld"})
              => relay' = relay]_vars

\* C11 witness: an iteration of loop() has run in Setup mode with the relay
\* energized since before the mode was entered.
C11_Witness == setup_mode /\ relay /\ relay0 /\ pc = "rf_check"

\* C12: when an edge arrives in Setup mode with no other edge waiting to be
\* served, the stored previous pin pair enco_prev is the pin pair present
\* before the edge, so the transition code the decoder forms for it is the
\* physical transition.
C12_PreviousPair ==
    [][(pins' # pins /\ eifr = {} /\ attached /\ setup_mode)
          => enco_prev = (2 * pins[1]) + pins[2]]_vars

\* C13: whenever writeCurrentTemperature() renders current_temp, current_temp
\* is a valid reading the sensor has returned (one of SensorVals, none of
\* which is the initial placeholder 0), never the placeholder and never a NaN.
C13_RendersReading ==
    [][(pc = "wc" /\ pc' # "wc") =>
          (~isnan(current_temp) /\ current_temp \in SensorVals)]_vars

\* C14: while the mode is Run, once setup() has computed the first setpoint,
\* no step changes the counter, the stored previous pin pair or the setpoint:
\* a run of the decoder in Run mode is a no-op, and the three are at the next
\* entry into Setup mode what they were at the last exit.
C14_RunModeNoOp ==
    [][(~setup_mode /\ pc # "s_target")
          => UNCHANGED <<enco_value, enco_prev, target_temp>>]_vars

\* C14 witness: after a stay in Setup mode that changed the counter, the mode
\* is Run, the pins have moved on and the decoder has served the edges
\* without storing the new pin pair.
C14_Witness ==
    /\ ~setup_mode /\ attached /\ eifr = {} /\ pc = "upd"
    /\ enco_value # enco_value_init
    /\ target_temp = SetPoint(enco_value)
    /\ enco_prev # (2 * pins[1]) + pins[2]

\* C15: a Run-mode iteration whose reading is invalid writes "Err " to the
\* display in the step that reads, and ends there: the next step of the main
\* program is the button check of the next iteration, the relay and the
\* refresh timestamp are as they were; the button check had run before the
\* read, so a press toggles the mode while the sensor fails.
C15_ErrToken ==
    [][/\ (pc = "read" /\ pc' # "read" /\ isnan(current_temp')) =>
              /\ ~setup_mode
              /\ disp'.text = <<"E", "r", "r", " ">>
              /\ pc' = "button"
              /\ relay' = relay
              /\ time_now' = time_now
       /\ (pc = "button" /\ pc' # "button" /\ isnan(current_temp) /\ sw = 0) =>
              setup_mode' # setup_mode]_vars

\* C15 witness: an iteration ended on an invalid reading with the error token
\* on the display, and the next one toggled the mode to Setup.
C15_Witness ==
    setup_mode /\ isnan(current_temp) /\ pc = "upd" /\ disp.text = <<"E", "r", "r", " ">>

\* A step that writes a payload, or the error token, to the display transport.
DisplayWrite ==
    \/ pc = "wc" /\ pc' # "wc"
    \/ pc = "wt_ld" /\ pc' # "wt_ld"
    \/ pc = "read" /\ pc' # "read" /\ isnan(current_temp')

\* C16: apart from the forced refresh that accompanies a mode toggle, a write
\* to the display transport comes more than 100 ms after the write before it.
C16_Cadence ==
    [][(DisplayWrite /\ ret # "tog_delay") => last_write = <<>>]_vars

\* An iteration of loop() has ended on an invalid reading in Run mode.
SensorFailed == ~setup_mode /\ pc = "button" /\ isnan(current_temp)

\* C17: a valid reading in Run mode leads to the relay decision in the same
\* iteration, whatever the readings before it were, and the decision sets
\* the relay by the hysteresis policy; and when the main program runs on and
\* the sensor gives a valid reading in the end, an iteration that failed is
\* followed by a relay decision (or by a change to Setup mode).
C17_NotLatched ==
    /\ [][/\ (pc = "read" /\ pc' # "read" /\ ~isnan(current_temp')) => pc' = "thresh"
          /\ (pc = "thresh" /\ pc' # "thresh") => pc' = "relay"
          /\ (pc = "relay" /\ pc' # "relay") =>
                 relay' = (current_temp.v <= target_temp + (IF relay THEN 1000 ELSE -1000))]_vars
    /\ SensorFailed ~> (pc = "relay" \/ setup_mode)

\* C17 witness: after an iteration that failed and left the relay
\* de-energized, the next valid reading has energized it.
C17_Witness ==
    /\ pc = "rf_check" /\ ~setup_mode /\ ~relay0 /\ relay
    /\ disp.text = <<"E", "r", "r", " ">>

\* C18: from the mode check that chooses the Run branch to the relay command
\* no step changes the setpoint, whatever interrupts are served in between;
\* the setpoint is the counter times 0.25 throughout, and the threshold the
\* relay command compares with is that setpoint plus or minus 1.0.
C18_StableSetPoint ==
    /\ [][(~setup_mode /\ pc \in {"mode", "read", "thresh", "relay"})
             => UNCHANGED <<target_temp, enco_value>>]_vars
    /\ [](pc \in {"read", "thresh", "relay"} =>
             (~setup_mode /\ target_temp = enco_value * 250))
    /\ [](pc = "relay" =>
             cushioned_target = target_temp + (IF relay THEN 1000 ELSE -1000))

\* C18 witness: the handler ran between the sensor read and the relay command
\* of a Run-mode iteration, and the relay command is about to use the setpoint.
C18_Witness ==
    /\ pc = "relay" /\ ~setup_mode /\ isr_decide /\ eifr = {}
    /\ pins # <<1, 1>>
    /\ cushioned_target = (enco_value * 250) - 1000

\* A clock value within 2^16 ms of the wraparound, as its signed distance from
\* it: what the 32-bit value stands for when time is not cut at 2^32.
SinceWrap(a) == IF a.h = 65535 THEN a.l - 65536 ELSE a.l

\* C19: an iteration that reaches the refresh check refreshes the display iff
\* more than 100 ms have really passed since the refresh timestamp, also when
\* the clock has wrapped in between.
C19_Wraparound ==
    [][(pc = "rf_check" /\ pc' # "rf_check") =>
          /\ clock.h \in {0, 65535} /\ time_now.h \in {0, 65535}
          /\ (pc' = "rf_stamp") <=> (SinceWrap(clock) - SinceWrap(time_now) > 100)]_vars

\* C19 witness: a refresh is due, and is made, with the timestamp before the
\* wraparound and the clock after it.
C19_Witness ==
    /\ pc = "rf_stamp" /\ time_now.h = 65535 /\ clock.h = 0
    /\ SinceWrap(clock) - SinceWrap(time_now) > 100

====
